---------------------------- MODULE Spec2Model ----------------------------
(***************************************************************************)
(* Model of the Blender API manifest tools:                                *)
(*   scripts/generate_blender_api_manifest.py  (classify, scan_html,       *)
(*                                              build_manifest, main)      *)
(*   scripts/query_blender_api_manifest.py     (main)                      *)
(*                                                                         *)
(* A Python str is modelled as the sequence of its characters (each a      *)
(* one-character string), so that prefix tests, lower-casing, substring    *)
(* search, splitting on '.' and code-point comparison are computed and     *)
(* not assumed.  A Python dict is modelled as the sequence of its items in *)
(* insertion order.  A document's text is modelled by what the two regular *)
(* expressions extract from it: the list ID_RE.findall returns and the     *)
(* optional group TITLE_RE.search returns.                                 *)
(***************************************************************************)
EXTENDS Integers, Sequences, FiniteSets, TLC

VARIABLES
    rootExists,     \* whether --doc-root exists
    corpus,         \* the documents in the doc root: set of [name, title, ids]
    manifestFile,   \* content of the --out / --manifest file, NoFile when absent
    run             \* what the last program run received and produced

vars == <<rootExists, corpus, manifestFile, run>>

-----------------------------------------------------------------------------
(* Bounds of the model *)

\* longest list of id attributes in one document
MaxIds == 2
\* longest anchor list of one group in a hand-written manifest
MaxAnchors == 1
\* largest --limit tried (the smallest is -MaxLimit)
MaxLimit == 2

-----------------------------------------------------------------------------
(* Python str primitives *)

\* printable ASCII, code points 32 .. 126, in code-point order (the double
\* quote, the backslash and the backtick, which no string of the model
\* holds, are written by name)
Ascii ==
    <<" ","!","QUOTE","#","$","%","&","'","(",")","*","+",",","-",".","/",
      "0","1","2","3","4","5","6","7","8","9",":",";","<","=",">","?","@",
      "A","B","C","D","E","F","G","H","I","J","K","L","M","N","O","P","Q",
      "R","S","T","U","V","W","X","Y","Z","[","BACKSLASH","]","^","_","BACKTICK",
      "a","b","c","d","e","f","g","h","i","j","k","l","m","n","o","p","q",
      "r","s","t","u","v","w","x","y","z","{","|","}","~">>

\* the white-space characters below U+0100 other than the space, each with
\* its code point: U+0009 .. U+000D, U+001C .. U+001F, U+0085, U+00A0 (the
\* ones with no escape are written raw between the quotes)
Controls ==
    <<[ch |-> "\t", ord |-> 9], [ch |-> "\n", ord |-> 10],
      [ch |-> "", ord |-> 11], [ch |-> "\f", ord |-> 12],
      [ch |-> "\r", ord |-> 13], [ch |-> "", ord |-> 28],
      [ch |-> "", ord |-> 29], [ch |-> "", ord |-> 30],
      [ch |-> "", ord |-> 31], [ch |-> "", ord |-> 133],
      [ch |-> " ", ord |-> 160]>>

\* the characters c.isspace() holds of, which str.strip() removes.  The
\* Unicode spaces from U+1680 up (U+1680, U+2000 .. U+200A, U+2028, U+2029,
\* U+202F, U+205F, U+3000) are white space too; a module string cannot
\* hold them, so no string of the model does.
WhiteSpace == {" "} \cup {Controls[i].ch : i \in DOMAIN Controls}

\* ord(c)
Ord ==
    [c \in {Ascii[i] : i \in DOMAIN Ascii} \cup WhiteSpace |->
        IF \E i \in DOMAIN Ascii : Ascii[i] = c
        THEN 31 + (CHOOSE i \in DOMAIN Ascii : Ascii[i] = c)
        ELSE Controls[CHOOSE i \in DOMAIN Controls : Controls[i].ch = c].ord]

\* chr(n)
Chr(n) == Ascii[n - 31]

\* c.lower() for one character: 'A'..'Z' map to 'a'..'z'
LowerChar(c) ==
    IF Ord[c] >= 65 /\ Ord[c] <= 90 THEN Chr(Ord[c] + 32) ELSE c

\* s.lower()
RECURSIVE Lower(_)
Lower(s) ==
    IF s = <<>> THEN <<>> ELSE <<LowerChar(s[1])>> \o Lower(Tail(s))

\* s.startswith(p)
StartsWith(s, p) == Len(s) >= Len(p) /\ \A k \in 1..Len(p) : s[k] = p[k]

\* s.endswith(p)
EndsWith(s, p) ==
    Len(s) >= Len(p) /\ SubSeq(s, Len(s) - Len(p) + 1, Len(s)) = p

\* q in s  (substring test; the empty string is in every string)
Contains(q, s) ==
    \E i \in 0..(Len(s) - Len(q)) : \A k \in 1..Len(q) : s[i + k] = q[k]

\* a < b on str: code-point lexicographic, a proper prefix is smaller
RECURSIVE StrLess(_, _)
StrLess(a, b) ==
    IF b = <<>> THEN FALSE
    ELSE IF a = <<>> THEN TRUE
    ELSE IF a[1] # b[1] THEN Ord[a[1]] < Ord[b[1]]
    ELSE StrLess(Tail(a), Tail(b))

StrLeq(a, b) == a = b \/ StrLess(a, b)

\* s.lstrip(): every leading white-space character removed
RECURSIVE LStrip(_)
LStrip(s) ==
    IF s # <<>> /\ s[1] \in WhiteSpace THEN LStrip(Tail(s)) ELSE s

\* s.rstrip(): every trailing white-space character removed
RECURSIVE RStrip(_)
RStrip(s) ==
    IF s # <<>> /\ s[Len(s)] \in WhiteSpace
    THEN RStrip(SubSeq(s, 1, Len(s) - 1))
    ELSE s

\* s.strip()

Strip(s) == RStrip(LStrip(s))

\* s.split('.', maxsplit): at most maxsplit cuts, from the left
RECURSIVE SplitFrom(_, _, _)
SplitFrom(s, maxsplit, cur) ==
    IF s = <<>> THEN <<cur>>
    ELSE IF s[1] = "." /\ maxsplit > 0
         THEN <<cur>> \o SplitFrom(Tail(s), maxsplit - 1, <<>>)
         ELSE SplitFrom(Tail(s), maxsplit, Append(cur, s[1]))

Split(s, maxsplit) == SplitFrom(s, maxsplit, <<>>)

\* sorted(S) for a set S of str
RECURSIVE SortedStrs(_)
SortedStrs(S) ==
    IF S = {} THEN <<>>
    ELSE LET m == CHOOSE x \in S : \A y \in S : StrLeq(x, y)
         IN  <<m>> \o SortedStrs(S \ {m})

\* set(v) for a list v
ToSet(v) == {v[i] : i \in 1..Len(v)}

Min(a, b) == IF a <= b THEN a ELSE b
Max(a, b) == IF a >= b THEN a ELSE b

\* v[:n], Python slice semantics: a negative n counts from the end
SliceTo(v, n) ==
    IF n >= 0 THEN SubSeq(v, 1, Min(n, Len(v)))
    ELSE SubSeq(v, 1, Max(Len(v) + n, 0))

-----------------------------------------------------------------------------
(* String constants of the two scripts *)

\* 'bpy.ops.'
P_bpy_ops_dot == <<"b","p","y",".","o","p","s",".">>
\* 'bpy.types.'
P_bpy_types_dot == <<"b","p","y",".","t","y","p","e","s",".">>
\* 'bpy.app'
P_bpy_app == <<"b","p","y",".","a","p","p">>
\* 'bpy.app.'
P_bpy_app_dot == <<"b","p","y",".","a","p","p",".">>
\* 'bpy.'
P_bpy_dot == <<"b","p","y",".">>
\* 'bmesh'
P_bmesh == <<"b","m","e","s","h">>
\* 'bmesh.'
P_bmesh_dot == <<"b","m","e","s","h",".">>
\* 'mathutils'
P_mathutils == <<"m","a","t","h","u","t","i","l","s">>
\* 'mathutils.'
P_mathutils_dot == <<"m","a","t","h","u","t","i","l","s",".">>
\* 'gpu'
P_gpu == <<"g","p","u">>
\* 'gpu.'
P_gpu_dot == <<"g","p","u",".">>
\* '.html', the suffix glob('*.html') selects
P_dot_html == <<".","h","t","m","l">>

-----------------------------------------------------------------------------
(* generate_blender_api_manifest.py: classify *)

\* a faulty variant: the generic 'bpy.' rule tried first
classify_GenericFirst(file_name) ==
    IF StartsWith(file_name, P_bpy_dot) THEN "bpy_page"
    ELSE IF StartsWith(file_name, P_bpy_ops_dot) THEN "ops_page"
    ELSE IF StartsWith(file_name, P_bpy_types_dot) THEN "types_page"
    ELSE IF StartsWith(file_name, P_bpy_app) THEN "app_page"
    ELSE IF StartsWith(file_name, P_bmesh) THEN "bmesh_page"
    ELSE IF StartsWith(file_name, P_mathutils) THEN "mathutils_page"
    ELSE IF StartsWith(file_name, P_gpu) THEN "gpu_page"
    ELSE "other_page"

classify(file_name) ==
    IF StartsWith(file_name, P_bpy_ops_dot) THEN "ops_page"
    ELSE IF StartsWith(file_name, P_bpy_types_dot) THEN "types_page"
    ELSE IF StartsWith(file_name, P_bpy_app) THEN "app_page"
    ELSE IF StartsWith(file_name, P_bpy_dot) THEN "bpy_page"
    ELSE IF StartsWith(file_name, P_bmesh) THEN "bmesh_page"
    ELSE IF StartsWith(file_name, P_mathutils) THEN "mathutils_page"
    ELSE IF StartsWith(file_name, P_gpu) THEN "gpu_page"
    ELSE "other_page"

-----------------------------------------------------------------------------
(* generate_blender_api_manifest.py: scan_html *)

\* the if/elif chain of the bucket loop: the key the anchor is appended
\* under, "" when no branch is taken
BucketKey(anchor) ==
    IF StartsWith(anchor, P_bpy_ops_dot) THEN "operators"
    ELSE IF StartsWith(anchor, P_bpy_types_dot) THEN "types"
    ELSE IF StartsWith(anchor, P_bpy_app_dot) THEN "app"
    ELSE IF StartsWith(anchor, P_bpy_dot) THEN "bpy"
    ELSE IF StartsWith(anchor, P_bmesh_dot) THEN "bmesh"
    ELSE IF StartsWith(anchor, P_mathutils_dot) THEN "mathutils"
    ELSE IF StartsWith(anchor, P_gpu_dot) THEN "gpu"
    ELSE ""

\* position of key k in dict d (a sequence of [key, val] items), 0 if absent
KeyIndex(d, k) ==
    IF \E i \in 1..Len(d) : d[i].key = k
    THEN CHOOSE i \in 1..Len(d) : d[i].key = k
    ELSE 0

\* d[k] of a defaultdict(list): the list under k, [] when k is absent
DictGet(d, k) ==
    IF KeyIndex(d, k) = 0 THEN <<>> ELSE d[KeyIndex(d, k)].val

\* defaultdict(list): d[k].append(x); a new key goes last
DictAppend(d, k, x) ==
    IF KeyIndex(d, k) = 0
    THEN Append(d, [key |-> k, val |-> <<x>>])
    ELSE [d EXCEPT ![KeyIndex(d, k)].val = Append(@, x)]

\* a faulty variant: 'if' for 'elif', an anchor goes to every bucket
\* whose prefix it has
RECURSIVE Buckets_NoElif(_, _)
Buckets_NoElif(ids, acc) ==
    IF ids = <<>> THEN acc
    ELSE LET a  == ids[1]
             b1 == IF StartsWith(a, P_bpy_ops_dot)
                   THEN DictAppend(acc, "operators", a) ELSE acc
             b2 == IF StartsWith(a, P_bpy_types_dot)
                   THEN DictAppend(b1, "types", a) ELSE b1
             b3 == IF StartsWith(a, P_bpy_app_dot)
                   THEN DictAppend(b2, "app", a) ELSE b2
             b4 == IF StartsWith(a, P_bpy_dot)
                   THEN DictAppend(b3, "bpy", a) ELSE b3
             b5 == IF StartsWith(a, P_bmesh_dot)
                   THEN DictAppend(b4, "bmesh", a) ELSE b4
             b6 == IF StartsWith(a, P_mathutils_dot)
                   THEN DictAppend(b5, "mathutils", a) ELSE b5
             b7 == IF StartsWith(a, P_gpu_dot)
                   THEN DictAppend(b6, "gpu", a) ELSE b6
         IN  Buckets_NoElif(Tail(ids), b7)

\* the bucket loop over ids, from the buckets built so far
RECURSIVE Buckets(_, _)
Buckets(ids, acc) ==
    IF ids = <<>> THEN acc
    ELSE Buckets(Tail(ids),
                 IF BucketKey(ids[1]) = "" THEN acc
                 ELSE DictAppend(acc, BucketKey(ids[1]), ids[1]))

\* a faulty variant: the buckets returned as filled, neither
\* de-duplicated nor sorted
Dedup_AsFilled(buckets) == buckets

\* {k: sorted(set(v)) for k, v in buckets.items() if v}
RECURSIVE Dedup(_)
Dedup(buckets) ==
    IF buckets = <<>> THEN <<>>
    ELSE IF buckets[1].val = <<>> THEN Dedup(Tail(buckets))
    ELSE <<[key |-> buckets[1].key,
            val |-> SortedStrs(ToSet(buckets[1].val))]>>
         \o Dedup(Tail(buckets))

\* scan_html(path): path is a document [name, title, ids], where title is
\* <<>> (TITLE_RE did not match) or <<group(1)>>
scan_html(path) ==
    [file     |-> path.name,
     title    |-> IF path.title # <<>> THEN Strip(path.title[1]) ELSE path.name,
     class    |-> classify(path.name),
     id_count |-> Len(path.ids),
     anchors  |-> Dedup(Buckets(path.ids, <<>>))]

-----------------------------------------------------------------------------
(* generate_blender_api_manifest.py: build_manifest *)

\* a faulty variant: the directory listing used as enumerated
SortedPaths_Unsorted(listing) == listing

\* sorted(doc_root.glob('*.html')): the paths of one directory, by name
RECURSIVE SortedPaths(_)
SortedPaths(listing) ==
    IF listing = <<>> THEN <<>>
    ELSE LET i == CHOOSE k \in 1..Len(listing) :
                      \A j \in 1..Len(listing) :
                          StrLeq(listing[k].name, listing[j].name)
         IN  <<listing[i]>> \o
             SortedPaths(SubSeq(listing, 1, i - 1) \o
                         SubSeq(listing, i + 1, Len(listing)))

\* entries = [scan_html(p) for p in sorted(...)]
RECURSIVE ScanPaths(_)
ScanPaths(paths) ==
    IF paths = <<>> THEN <<>>
    ELSE <<scan_html(paths[1])>> \o ScanPaths(Tail(paths))

ScanAll(listing) == ScanPaths(SortedPaths(listing))

\* anchor.split('.', 3)[2]
Namespace(anchor) == Split(anchor, 3)[3]

\* whether anchor.split('.', 3)[2] raises IndexError
NamespaceRaises(anchor) == Len(Split(anchor, 3)) < 3

\* for a in anchors: index[a.split('.', 3)[2]].append({'id': a, 'file': f})
RECURSIVE IndexAnchors(_, _, _)
IndexAnchors(index, anchors, f) ==
    IF anchors = <<>> THEN index
    ELSE IndexAnchors(DictAppend(index, Namespace(anchors[1]),
                                 [id |-> anchors[1], file |-> f]),
                      Tail(anchors), f)

\* the loop over entries filling ops_index ('operators') or types_index
\* ('types')
RECURSIVE IndexEntries(_, _, _)
IndexEntries(index, entries, group) ==
    IF entries = <<>> THEN index
    ELSE IndexEntries(
             IndexAnchors(index, DictGet(entries[1].anchors, group),
                          entries[1].file),
             Tail(entries), group)

\* the loop over entries filling topic_index
RECURSIVE TopicEntries(_, _)
TopicEntries(index, entries) ==
    IF entries = <<>> THEN index
    ELSE TopicEntries(DictAppend(index, entries[1].class, entries[1].file),
                      Tail(entries))

\* x < y under key=lambda x: (x['file'], x['id'])
PairLess(x, y) ==
    StrLess(x.file, y.file) \/ (x.file = y.file /\ StrLess(x.id, y.id))

\* sorted(v, key=lambda x: (x['file'], x['id'])): stable insertion
RECURSIVE SortedPairs(_)
SortedPairs(v) ==
    IF v = <<>> THEN <<>>
    ELSE LET rest == SortedPairs(SubSeq(v, 1, Len(v) - 1))
             x    == v[Len(v)]
             n    == Cardinality({i \in 1..Len(rest) : ~PairLess(x, rest[i])})
         IN  SubSeq(rest, 1, n) \o <<x>> \o SubSeq(rest, n + 1, Len(rest))

\* a faulty variant: the keys left in insertion order
SortedItems_Unsorted(d) == d

\* sorted(d.items()) for a dict with str keys
RECURSIVE SortedItems(_)
SortedItems(d) ==
    IF d = <<>> THEN <<>>
    ELSE LET i == CHOOSE k \in 1..Len(d) :
                      \A j \in 1..Len(d) : StrLeq(d[k].key, d[j].key)
         IN  <<d[i]>> \o
             SortedItems(SubSeq(d, 1, i - 1) \o SubSeq(d, i + 1, Len(d)))

\* sort_index(d)
RECURSIVE SortEach(_)
SortEach(items) ==
    IF items = <<>> THEN <<>>
    ELSE <<[key |-> items[1].key, val |-> SortedPairs(items[1].val)]>>
         \o SortEach(Tail(items))

sort_index(d) == SortEach(SortedItems(d))

\* the eight page classes in ascending str order
ClassOrder ==
    <<"app_page", "bmesh_page", "bpy_page", "gpu_page", "mathutils_page",
      "ops_page", "other_page", "types_page">>

\* {k: sorted(v) for k, v in sorted(topic_index.items())}
RECURSIVE PagesFrom(_, _)
PagesFrom(classes, topic_index) ==
    IF classes = <<>> THEN <<>>
    ELSE (IF KeyIndex(topic_index, classes[1]) = 0 THEN <<>>
          ELSE <<[key |-> classes[1],
                  val |-> SortedStrs(ToSet(DictGet(topic_index, classes[1])))]>>)
         \o PagesFrom(Tail(classes), topic_index)

PagesByClass(topic_index) == PagesFrom(ClassOrder, topic_index)

\* whether the index loops raise IndexError on some anchor
BuildRaises(entries) ==
    \E i \in 1..Len(entries) :
        \E g \in {"operators", "types"} :
            \E j \in 1..Len(DictGet(entries[i].anchors, g)) :
                NamespaceRaises(DictGet(entries[i].anchors, g)[j])

\* build_manifest(doc_root), given the order in which glob enumerates the
\* documents
build_manifest(listing) ==
    LET entries == ScanAll(listing)
    IN  [doc_root      |-> "doc_root",
         pages_scanned |-> Len(entries),
         entries       |-> entries,
         indexes       |->
            [operators_by_namespace |->
                 sort_index(IndexEntries(<<>>, entries, "operators")),
             types_by_namespace |->
                 sort_index(IndexEntries(<<>>, entries, "types")),
             pages_by_class |-> PagesByClass(TopicEntries(<<>>, entries))],
         notes         |-> <<"Use this manifest", "Prefer local project scripts">>]

\* doc_root.glob('*.html'): the documents of the directory the pattern selects
Glob(dir) == {d \in dir : EndsWith(d.name, P_dot_html)}

\* the orders in which a directory listing may enumerate a set of paths
Listings(S) ==
    {l \in [1..Cardinality(S) -> S] :
        \A i, j \in 1..Cardinality(S) : l[i] = l[j] => i = j}

-----------------------------------------------------------------------------
(* query_blender_api_manifest.py: main *)

\* a faulty variant: the needle used as typed
QueryNeedle_AsTyped(arg) == arg

\* q = args.q.lower()
QueryNeedle(arg) == Lower(arg)

\* a match row (file, title, anchor): anchor is <<>> for None, <<a>> for a
Row(file, title, anchor) == [file |-> file, title |-> title, anchor |-> anchor]

\* for a in anchors: if q in a.lower(): out.append((file, title, a))
RECURSIVE AnchorRows(_, _, _)
AnchorRows(entry, anchors, q) ==
    IF anchors = <<>> THEN <<>>
    ELSE (IF Contains(q, Lower(anchors[1]))
          THEN <<Row(entry.file, entry.title, <<anchors[1]>>)>>
          ELSE <<>>)
         \o AnchorRows(entry, Tail(anchors), q)

\* a faulty variant: the groups visited last to first
GroupRows_Reversed(entry, items, q) ==
    LET RECURSIVE Rev(_)
        Rev(it) ==
            IF it = <<>> THEN <<>>
            ELSE Rev(Tail(it)) \o AnchorRows(entry, it[1].val, q)
    IN  Rev(items)

\* for group, anchors in entry['anchors'].items(): ...
RECURSIVE GroupRows(_, _, _)
GroupRows(entry, items, q) ==
    IF items = <<>> THEN <<>>
    ELSE AnchorRows(entry, items[1].val, q) \o GroupRows(entry, Tail(items), q)

\* the body of the loop over entries, for one entry
EntryRows(entry, q) ==
    (IF Contains(q, Lower(entry.file)) \/ Contains(q, Lower(entry.title))
     THEN <<Row(entry.file, entry.title, <<>>)>>
     ELSE <<>>)
    \o GroupRows(entry, entry.anchors, q)

\* the loop over data['entries']: the list out
RECURSIVE MatchRows(_, _)
MatchRows(entries, q) ==
    IF entries = <<>> THEN <<>>
    ELSE EntryRows(entries[1], q) \o MatchRows(Tail(entries), q)

\* a faulty variant: every row kept
StableDedupe_KeepAll(out, seen) == out

\* the "stable dedupe" loop: out is what is left to visit, seen the set seen
RECURSIVE StableDedupe(_, _)
StableDedupe(out, seen) ==
    IF out = <<>> THEN <<>>
    ELSE IF out[1] \in seen THEN StableDedupe(Tail(out), seen)
    ELSE <<out[1]>> \o StableDedupe(Tail(out), seen \cup {out[1]})

\* the line printed for a row: f'{file}: {anchor}' if anchor else
\* f'{file}: {title}'   (an empty anchor is falsy)
PrintedLine(row) ==
    IF row.anchor # <<>> /\ row.anchor[1] # <<>>
    THEN [file |-> row.file, text |-> row.anchor[1]]
    ELSE [file |-> row.file, text |-> row.title]

-----------------------------------------------------------------------------
(* Inputs *)

\* 'bpy.ops.mesh.html'
F_ops_mesh == <<"b","p","y",".","o","p","s",".","m","e","s","h",".","h","t","m","l">>
\* 'bpy.types.Object.html'
F_types_Object == <<"b","p","y",".","t","y","p","e","s",".","O","b","j","e","c","t",".","h","t","m","l">>
\* '\n Mesh Operators\t\n', the text between <title> and </title>
T_Mesh_Operators ==
    <<"\n"," ","M","e","s","h"," ","O","p","e","r","a","t","o","r","s","\t","\n">>
\* 'bpy.ops.mesh.fill'
A_ops_mesh_fill == <<"b","p","y",".","o","p","s",".","m","e","s","h",".","f","i","l","l">>
\* 'bpy.ops.anim.bake'
A_ops_anim_bake == <<"b","p","y",".","o","p","s",".","a","n","i","m",".","b","a","k","e">>
\* 'bpy.types.Object'
A_types_Object == <<"b","p","y",".","t","y","p","e","s",".","O","b","j","e","c","t">>
\* 'bpy.types.Mesh'
A_types_Mesh == <<"b","p","y",".","t","y","p","e","s",".","M","e","s","h">>
\* 'bpy.ops.', an id with an empty third segment
A_ops_dot == P_bpy_ops_dot
\* 'intro'
S_intro == <<"i","n","t","r","o">>
\* 'Mesh Operators'
T_Mesh_Operators_stripped == <<"M","e","s","h"," ","O","p","e","r","a","t","o","r","s">>
\* 'x.html'
S_x_html == <<"x",".","h","t","m","l">>
\* '.x.html'
S_dot_x_html == <<".","x",".","h","t","m","l">>
\* '.x'
S_dot_x == <<".","x">>
\* 'bpy.ops'
S_bpy_ops == <<"b","p","y",".","o","p","s">>
\* 'bpy.types'
S_bpy_types == <<"b","p","y",".","t","y","p","e","s">>
\* 'FILL'
Q_FILL == <<"F","I","L","L">>
\* 'bpy'
Q_bpy == <<"b","p","y">>
\* 'Object'
Q_Object == <<"O","b","j","e","c","t">>
\* 'Operators', which occurs in a title and in no file name or anchor
Q_Operators == <<"O","p","e","r","a","t","o","r","s">>
\* 'MESH', which occurs in 'bpy.types.Mesh' once both are lower-cased
Q_MESH == <<"M","E","S","H">>

\* sequences over S of length 0 .. n
SeqsUpTo(S, n) == UNION {[1..k -> S] : k \in 0..n}

\* the two document files a doc root may hold, each with what TITLE_RE finds
File_ops_mesh == [name |-> F_ops_mesh, title |-> <<T_Mesh_Operators>>]
File_types_Object == [name |-> F_types_Object, title |-> <<>>]

\* the id attribute values a document may hold
DocIds == {A_ops_mesh_fill, A_ops_anim_bake, A_types_Object, A_ops_dot}

\* file f absent from the doc root, or present with up to MaxIds id attributes
DocChoices(f) ==
    {{}} \cup {{[name |-> f.name, title |-> f.title, ids |-> ids]} :
                  ids \in SeqsUpTo(DocIds, MaxIds)}

\* the doc roots: at most one document per file name
Corpora ==
    {a \cup b : a \in DocChoices(File_ops_mesh),
                b \in DocChoices(File_types_Object)}

\* the anchors a hand-written manifest may list
ManifestAnchors == {A_ops_mesh_fill, A_types_Mesh}

\* the anchors-by-group maps of a hand-written manifest: no group, one group,
\* or 'operators' then 'types', each list of up to MaxAnchors anchors
ManifestGroups ==
    {<<>>}
    \cup {<<[key |-> g, val |-> l]>> :
              g \in {"operators", "types"},
              l \in SeqsUpTo(ManifestAnchors, MaxAnchors)}
    \cup {<<[key |-> "operators", val |-> l1], [key |-> "types", val |-> l2]>> :
              l1 \in SeqsUpTo(ManifestAnchors, MaxAnchors),
              l2 \in SeqsUpTo(ManifestAnchors, MaxAnchors)}

\* the entries of a hand-written manifest
ManifestEntries ==
    {[file |-> ft[1], title |-> ft[2], anchors |-> g] :
        ft \in {<<F_ops_mesh, T_Mesh_Operators_stripped>>,
                <<F_types_Object, F_types_Object>>},
        g \in ManifestGroups}

\* the hand-written manifests: what json.loads returns for a file holding
\* no, one or two entries (entries may repeat)
Manifests ==
    {[entries |-> es] :
        es \in {<<>>} \cup {<<e>> : e \in ManifestEntries}
                    \cup {<<e1, e2>> : e1 \in ManifestEntries, e2 \in ManifestEntries}}

\* the strings file names and ids are built from in the scanner's inputs
Stems ==
    {S_bpy_ops, S_bpy_types, P_bpy_app, Q_bpy, P_bmesh, P_mathutils, P_gpu,
     S_intro}

\* file names: 'bpy.ops.html', 'bpy.opsx.html', 'bpy.ops.x.html', ...
ScanNames ==
    {stem \o tail : stem \in Stems, tail \in {P_dot_html, S_x_html, S_dot_x_html}}

\* id attribute values: 'bpy.ops', 'bpy.ops.x', ...
ScanIds == {stem \o tail : stem \in Stems, tail \in {<<>>, S_dot_x}}

\* the documents handed to the scanner alone
ScanDocs ==
    {[name |-> n, title |-> t, ids |-> ids] :
        n \in ScanNames, t \in {<<>>, <<T_Mesh_Operators>>},
        ids \in SeqsUpTo(ScanIds, MaxIds)}

\* the --q arguments
Needles == {Q_FILL, Q_bpy, Q_Object, Q_Operators, Q_MESH}

\* the --limit arguments
Limits == (0 - MaxLimit)..MaxLimit

-----------------------------------------------------------------------------
(* The two programs *)

NoRun == [prog |-> "none"]

\* generate_blender_api_manifest.py main(): exits when the doc root is
\* missing, else builds the manifest and writes it to --out.  A behaviour is
\* one session that ends with its query run: a generate run after a query
\* would write the manifest the runs before the query wrote (first conjunct).
GenerateMain ==
    /\ run.prog # "query"
    /\ IF ~rootExists
       THEN /\ run' = [prog |-> "generate", exit |-> "doc root not found"]
            /\ UNCHANGED manifestFile
       ELSE \E listing \in Listings(Glob(corpus)) :
               IF BuildRaises(ScanAll(listing))
               THEN /\ run' = [prog |-> "generate", exit |-> "IndexError",
                               listing |-> listing]
                    /\ UNCHANGED manifestFile
               ELSE LET manifest == build_manifest(listing)
                    IN  /\ manifestFile' = <<manifest>>
                        /\ run' = [prog |-> "generate", exit |-> "0",
                                   listing |-> listing,
                                   pages |-> manifest.pages_scanned]
    /\ UNCHANGED <<rootExists, corpus>>

\* the print loop over uniq[: args.limit]
RECURSIVE PrintedLines(_)
PrintedLines(rows) ==
    IF rows = <<>> THEN <<>>
    ELSE <<PrintedLine(rows[1])>> \o PrintedLines(Tail(rows))

\* the first number of the summary line: min(len(uniq), args.limit)
ResultsShown(uniq, limit) == Min(Len(uniq), limit)

\* main() from the loaded manifest on: what it computes and prints
QueryRun(data, arg, limit) ==
    LET out  == MatchRows(data.entries, QueryNeedle(arg))
        uniq == StableDedupe(out, {})
    IN  [prog    |-> "query",
         exit    |-> "0",
         arg     |-> arg,
         limit   |-> limit,
         out     |-> out,
         uniq    |-> uniq,
         printed |-> PrintedLines(SliceTo(uniq, limit)),
         results |-> ResultsShown(uniq, limit),
         total   |-> Len(uniq)]

\* query_blender_api_manifest.py main() with --q arg --limit limit.  A query
\* writes no file, so a second query would reach only what the first can
\* reach (first conjunct).
QueryMain ==
    /\ run.prog # "query"
    /\ \E arg \in Needles, limit \in Limits :
          IF manifestFile = <<>>
          THEN run' = [prog |-> "query", exit |-> "FileNotFoundError"]
          ELSE run' = QueryRun(manifestFile[1], arg, limit)
    /\ UNCHANGED <<rootExists, corpus, manifestFile>>

Init ==
    /\ rootExists \in BOOLEAN
    /\ corpus \in (IF rootExists THEN Corpora ELSE {{}})
    /\ manifestFile = <<>>
    /\ run = NoRun

Next == GenerateMain \/ QueryMain

Spec == Init /\ [][Next]_vars

\* The query program on a manifest file written by hand
InitQuery ==
    /\ rootExists = FALSE
    /\ corpus = {}
    /\ manifestFile \in {<<m>> : m \in Manifests}
    /\ run = NoRun

NextQuery == QueryMain

SpecQuery == InitQuery /\ [][NextQuery]_vars

\* The scanner on one document
ScanStep ==
    /\ run = NoRun
    /\ \E path \in corpus :
          run' = [prog |-> "scan", path |-> path, record |-> scan_html(path)]
    /\ UNCHANGED <<rootExists, corpus, manifestFile>>

InitScan ==
    /\ rootExists = TRUE
    /\ corpus \in {{d} : d \in ScanDocs}
    /\ manifestFile = <<>>
    /\ run = NoRun

NextScan == ScanStep

SpecScan == InitScan /\ [][NextScan]_vars

-----------------------------------------------------------------------------
(* Reference definitions the properties are stated with *)

\* the page rules in priority order: <<prefix, class>>
PageRules ==
    <<<<P_bpy_ops_dot, "ops_page">>, <<P_bpy_types_dot, "types_page">>,
      <<P_bpy_app, "app_page">>, <<P_bpy_dot, "bpy_page">>,
      <<P_bmesh, "bmesh_page">>, <<P_mathutils, "mathutils_page">>,
      <<P_gpu, "gpu_page">>>>

\* the anchor rules in priority order: <<prefix, group>>
AnchorRules ==
    <<<<P_bpy_ops_dot, "operators">>, <<P_bpy_types_dot, "types">>,
      <<P_bpy_app_dot, "app">>, <<P_bpy_dot, "bpy">>,
      <<P_bmesh_dot, "bmesh">>, <<P_mathutils_dot, "mathutils">>,
      <<P_gpu_dot, "gpu">>>>

PageClasses == {PageRules[i][2] : i \in DOMAIN PageRules} \cup {"other_page"}

\* s has the prefix p, position by position
HasPrefix(s, p) == Len(p) <= Len(s) /\ SubSeq(s, 1, Len(p)) = p

\* the label of the first rule whose prefix s has, default when there is none
FirstMatch(rules, s, default) ==
    LET hits == {i \in DOMAIN rules : HasPrefix(s, rules[i][1])}
    IN  IF hits = {} THEN default
        ELSE rules[CHOOSE i \in hits : \A j \in hits : i <= j][2]

\* the groups of a record's anchors map that list anchor a
GroupsOf(anchors, a) ==
    {anchors[i].key : i \in {j \in 1..Len(anchors) : a \in ToSet(anchors[j].val)}}

\* sum of the lengths of the lists of a dict
RECURSIVE TotalLen(_)
TotalLen(d) == IF d = <<>> THEN 0 ELSE Len(d[1].val) + TotalLen(Tail(d))

Scanned == run.prog = "scan"

-----------------------------------------------------------------------------
(* Properties of the scanner, under SpecScan *)

\* C4: page and anchor classification are first-match over the fixed rule
\* order: the record's class is the label of the first page rule the file
\* name matches (other_page when none does), exactly one of the eight
\* classes; every id is listed under the group of the first anchor rule it
\* matches and under no other, an id matching no rule under no group; a
\* file name starting with 'bpy.ops.' is ops_page, never bpy_page, and an id
\* starting with 'bpy.ops.' is in operators, never in bpy.
C4_FirstMatchClassification ==
    Scanned =>
        LET name == run.path.name
            ids  == run.path.ids
            rec  == run.record
        IN  /\ rec.class \in PageClasses
            /\ rec.class = FirstMatch(PageRules, name, "other_page")
            /\ HasPrefix(name, P_bpy_ops_dot) =>
                   rec.class = "ops_page" /\ rec.class # "bpy_page"
            /\ \A i \in 1..Len(ids) :
                   LET g == FirstMatch(AnchorRules, ids[i], "")
                   IN  /\ GroupsOf(rec.anchors, ids[i]) =
                              (IF g = "" THEN {} ELSE {g})
                       /\ HasPrefix(ids[i], P_bpy_ops_dot) =>
                              GroupsOf(rec.anchors, ids[i]) = {"operators"}

\* C4 witness: a scanned document named 'bpy.ops...' that holds an id with
\* the prefix 'bpy.ops.' and an id no rule matches
C4_Witness ==
    /\ Scanned
    /\ HasPrefix(run.path.name, P_bpy_ops_dot)
    /\ run.record.class = "ops_page"
    /\ \E i, j \in 1..Len(run.path.ids) :
          /\ HasPrefix(run.path.ids[i], P_bpy_ops_dot)
          /\ GroupsOf(run.record.anchors, run.path.ids[i]) = {"operators"}
          /\ FirstMatch(AnchorRules, run.path.ids[j], "") = ""

\* C8: id_count is the number of id values found, duplicates included, and
\* is at least the sum of the lengths of the lists of the anchors map; an
\* id that matches no group rule is one of the id_count values counted and
\* is listed in no group, and every listed anchor matches a group rule.
C8_IdCountBoundsGrouped ==
    Scanned =>
        LET ids     == run.path.ids
            anchors == run.record.anchors
            Unmatched(a) == \A r \in DOMAIN AnchorRules :
                                ~HasPrefix(a, AnchorRules[r][1])
        IN  /\ run.record.id_count = Len(ids)
            /\ run.record.id_count >= TotalLen(anchors)
            /\ \A i \in 1..Len(ids) :
                   Unmatched(ids[i]) => GroupsOf(anchors, ids[i]) = {}
            /\ \A g \in 1..Len(anchors) : \A k \in 1..Len(anchors[g].val) :
                   ~Unmatched(anchors[g].val[k])
            /\ run.record.id_count >=
                   TotalLen(anchors)
                   + Cardinality({i \in 1..Len(ids) : Unmatched(ids[i])})

\* C8 witness: a document with a grouped id and an id no rule matches: the
\* unmatched id is counted and listed nowhere, so id_count exceeds the
\* grouped count
C8_Witness ==
    /\ Scanned
    /\ TotalLen(run.record.anchors) >= 1
    /\ run.record.id_count > TotalLen(run.record.anchors)
    /\ \E i, j \in 1..Len(run.path.ids) :
          /\ \A r \in DOMAIN AnchorRules :
                 ~HasPrefix(run.path.ids[i], AnchorRules[r][1])
          /\ GroupsOf(run.record.anchors, run.path.ids[i]) = {}
          /\ GroupsOf(run.record.anchors, run.path.ids[j]) # {}

\* C10: every list of the anchors map is non-empty, strictly ascending (so
\* without repeats), and holds exactly the ids of the document that classify
\* into its group; the keys are distinct, so an anchor is in at most one
\* group.
C10_GroupListsSortedDistinct ==
    Scanned =>
        LET anchors == run.record.anchors
            ids     == ToSet(run.path.ids)
        IN  /\ \A i, j \in 1..Len(anchors) :
                   anchors[i].key = anchors[j].key => i = j
            /\ \A i \in 1..Len(anchors) :
                   LET v == anchors[i].val
                   IN  /\ v # <<>>
                       /\ \A k \in 1..(Len(v) - 1) : StrLess(v[k], v[k + 1])
                       /\ ToSet(v) =
                              {a \in ids :
                                  FirstMatch(AnchorRules, a, "") = anchors[i].key}
            /\ \A a \in ids : Cardinality(GroupsOf(anchors, a)) <= 1

\* C10 witness: a document whose two ids of one group come in descending
\* order and are listed in ascending order
C10_Witness ==
    /\ Scanned
    /\ Len(run.path.ids) = 2
    /\ StrLess(run.path.ids[2], run.path.ids[1])
    /\ \E i \in 1..Len(run.record.anchors) :
          run.record.anchors[i].val = <<run.path.ids[2], run.path.ids[1]>>

-----------------------------------------------------------------------------
(* Properties of the build, under Spec *)

\* a manifest has been written
Built == manifestFile # <<>>

\* the positions of the dots of anchor a, and its n-th dot (0 when a has
\* fewer than n dots)
Dots(a) == {i \in 1..Len(a) : a[i] = "."}
NthDot(a, n) ==
    IF Cardinality(Dots(a)) < n THEN 0
    ELSE CHOOSE i \in Dots(a) : Cardinality({j \in Dots(a) : j <= i}) = n

\* whether a has a dot-segment at 0-indexed position 2, and that segment:
\* what lies between the second dot and the third (or the end of a)
HasSegment2(a) == NthDot(a, 2) # 0
Segment2(a) ==
    SubSeq(a, NthDot(a, 2) + 1,
           IF NthDot(a, 3) = 0 THEN Len(a) ELSE NthDot(a, 3) - 1)

\* the <<namespace, pair>> items of a namespace index
IndexItems(index) ==
    UNION {{<<index[i].key, index[i].val[k]>> : k \in 1..Len(index[i].val)} :
              i \in 1..Len(index)}

\* the items the reference grouping holds for a group: one per document and
\* anchor of the document's group, under the anchor's segment at position 2
ReferenceItems(entries, group) ==
    UNION {{<<Segment2(a), [id |-> a, file |-> entries[i].file]>> :
               a \in ToSet(DictGet(entries[i].anchors, group))} :
              i \in 1..Len(entries)}

\* index equals the reference grouping of a group and is sorted
IsReferenceIndex(index, entries, group) ==
    /\ IndexItems(index) = ReferenceItems(entries, group)
    /\ TotalLen(index) = Cardinality(ReferenceItems(entries, group))
    /\ \A i \in 1..Len(index) : index[i].val # <<>>
    /\ \A i \in 1..(Len(index) - 1) : StrLess(index[i].key, index[i + 1].key)
    /\ \A i \in 1..Len(index) :
           \A k \in 1..(Len(index[i].val) - 1) :
               LET x == index[i].val[k]
                   y == index[i].val[k + 1]
               IN  \/ StrLess(x.file, y.file)
                   \/ x.file = y.file /\ StrLess(x.id, y.id)

\* C5: operators_by_namespace and types_by_namespace equal the reference
\* grouping: under each namespace exactly one pair for every document and
\* every anchor of its group whose dot-segment at position 2 is the
\* namespace, and no other pair; each list ascending by (file, anchor), the
\* namespace keys ascending.
C5_NamespaceIndexes ==
    Built =>
        LET m == manifestFile[1]
        IN  /\ IsReferenceIndex(m.indexes.operators_by_namespace,
                                m.entries, "operators")
            /\ IsReferenceIndex(m.indexes.types_by_namespace,
                                m.entries, "types")

\* C5 witness: two documents, the first with an operator of namespace mesh
\* only and the second with one of namespace anim, so that anim is indexed
\* after mesh and listed before it; and a types index that is not empty
C5_Witness ==
    /\ Built
    /\ Len(manifestFile[1].entries) = 2
    /\ DictGet(manifestFile[1].entries[1].anchors, "operators") = <<A_ops_mesh_fill>>
    /\ A_ops_anim_bake \in
           ToSet(DictGet(manifestFile[1].entries[2].anchors, "operators"))
    /\ Len(manifestFile[1].indexes.operators_by_namespace) = 2
    /\ manifestFile[1].indexes.operators_by_namespace[1].val =
           <<[id |-> A_ops_anim_bake, file |-> F_types_Object]>>
    /\ manifestFile[1].indexes.types_by_namespace # <<>>

\* C6: the build never faults in namespace extraction and every key of
\* operators_by_namespace and types_by_namespace is a non-empty string: an
\* anchor without a proper segment at position 2 is in no list of the
\* indexes.
C6_NoEmptyNamespace ==
    /\ run.prog = "generate" => run.exit # "IndexError"
    /\ Built =>
           \A index \in {manifestFile[1].indexes.operators_by_namespace,
                         manifestFile[1].indexes.types_by_namespace} :
               \A i \in 1..Len(index) :
                   /\ index[i].key # <<>>
                   /\ \A k \in 1..Len(index[i].val) :
                          /\ HasSegment2(index[i].val[k].id)
                          /\ Segment2(index[i].val[k].id) # <<>>

\* C7: building again from the unchanged documents writes the manifest that
\* is there, whatever the order in which the directory is enumerated
C7_RebuildIdentical ==
    [][Built /\ run'.prog = "generate" => manifestFile' = manifestFile]_vars

\* C7 witness: a manifest of two documents built from a listing that
\* enumerated them in descending name order
C7_Witness ==
    /\ Built
    /\ run.prog = "generate"
    /\ run.exit = "0"
    /\ Len(run.listing) = 2
    /\ StrLess(run.listing[2].name, run.listing[1].name)
    /\ StrLess(manifestFile[1].entries[1].file, manifestFile[1].entries[2].file)

-----------------------------------------------------------------------------
(* Properties of the query, on a built manifest (Spec) *)

\* the query ran to its end
Queried == run.prog = "query" /\ run.exit = "0"

\* the position in the manifest of the entry of a row (file names are
\* unique in a built manifest)
EntryIndex(row) ==
    CHOOSE i \in 1..Len(manifestFile[1].entries) :
        manifestFile[1].entries[i].file = row.file

\* the group under which the manifest lists the anchor of an anchor row
GroupOfRow(row) ==
    CHOOSE g \in GroupsOf(manifestFile[1].entries[EntryIndex(row)].anchors,
                          row.anchor[1]) : TRUE

\* the pairs of positions i < j of out that hold anchor rows of one document
AnchorRowPairs ==
    {p \in (1..Len(run.out)) \X (1..Len(run.out)) :
        /\ p[1] < p[2]
        /\ run.out[p[1]].file = run.out[p[2]].file
        /\ run.out[p[1]].anchor # <<>>
        /\ run.out[p[2]].anchor # <<>>}

\* documents in manifest order
RowsInDocumentOrder ==
    \A i, j \in 1..Len(run.out) :
        i < j => EntryIndex(run.out[i]) <= EntryIndex(run.out[j])

\* the document-level row of a document before its anchor-level rows
DocumentRowFirst ==
    \A i, j \in 1..Len(run.out) :
        i < j /\ run.out[i].file = run.out[j].file => run.out[j].anchor # <<>>

\* within a group, the order of the group's stored list
WithinGroupStoredOrder ==
    \A p \in AnchorRowPairs :
        GroupOfRow(run.out[p[1]]) = GroupOfRow(run.out[p[2]]) =>
            LET v == DictGet(manifestFile[1].entries[EntryIndex(run.out[p[1]])].anchors,
                             GroupOfRow(run.out[p[1]]))
            IN  \E a, b \in 1..Len(v) :
                    /\ a < b
                    /\ v[a] = run.out[p[1]].anchor[1]
                    /\ v[b] = run.out[p[2]].anchor[1]

\* the groups some anchor row of out belongs to
GroupsShown ==
    {GroupOfRow(run.out[i]) : i \in {k \in 1..Len(run.out) : run.out[k].anchor # <<>>}}

\* one order of the group labels that the anchor rows of every document
\* follow
FixedGroupOrder ==
    \E rank \in [GroupsShown -> 1..Cardinality(GroupsShown)] :
        /\ \A g, h \in GroupsShown : rank[g] = rank[h] => g = h
        /\ \A p \in AnchorRowPairs :
               rank[GroupOfRow(run.out[p[1]])] <= rank[GroupOfRow(run.out[p[2]])]

\* the position in document d of the first id that classifies into group g
FirstIdOf(d, g) ==
    CHOOSE k \in 1..Len(d.ids) :
        /\ FirstMatch(AnchorRules, d.ids[k], "") = g
        /\ \A n \in 1..(k - 1) : FirstMatch(AnchorRules, d.ids[n], "") # g

\* the document of the doc root a row comes from
DocumentOf(row) == CHOOSE d \in corpus : d.name = row.file

\* the groups of a document in the order of their first id in the document
FirstOccurrenceGroupOrder ==
    \A p \in AnchorRowPairs :
        GroupOfRow(run.out[p[1]]) # GroupOfRow(run.out[p[2]]) =>
            FirstIdOf(DocumentOf(run.out[p[1]]), GroupOfRow(run.out[p[1]]))
                < FirstIdOf(DocumentOf(run.out[p[2]]), GroupOfRow(run.out[p[2]]))

\* C9 as claimed: rows come in manifest order of the documents, the
\* document-level row of a document before its anchor-level rows, the
\* anchor-level rows by group in an order fixed by the group labels alone,
\* and within a group in the order of the stored list.
C9_GroupLabelOrder ==
    Queried =>
        /\ RowsInDocumentOrder
        /\ DocumentRowFirst
        /\ FixedGroupOrder
        /\ WithinGroupStoredOrder

\* C9 as amended: as claimed, except that the anchor-level rows of a
\* document come by group in the order in which the groups first occur
\* among the ids of the source document.
C9_FirstOccurrenceOrder ==
    Queried =>
        /\ RowsInDocumentOrder
        /\ DocumentRowFirst
        /\ FirstOccurrenceGroupOrder
        /\ WithinGroupStoredOrder

\* C9 witness: a query that emits, for one document, the document-level
\* row, then a row of group types, then a row of group operators
C9_Witness ==
    /\ Queried
    /\ Built
    /\ \E i, j, k \in 1..Len(run.out) :
          /\ i < j /\ j < k
          /\ run.out[i].file = run.out[j].file
          /\ run.out[j].file = run.out[k].file
          /\ run.out[i].anchor = <<>>
          /\ run.out[j].anchor # <<>> /\ run.out[k].anchor # <<>>
          /\ GroupOfRow(run.out[j]) = "types"
          /\ GroupOfRow(run.out[k]) = "operators"

-----------------------------------------------------------------------------
(* Properties of the query, on any manifest (SpecQuery) *)

\* the positions of out that hold the first occurrence of their row
FirstOccurrences(out) ==
    {i \in 1..Len(out) : \A j \in 1..(i - 1) : out[j] # out[i]}

\* the de-duplicated sequence: the rows at the first occurrences, in order
Distinct(out) ==
    LET K == FirstOccurrences(out)
    IN  [n \in 1..Cardinality(K) |->
            out[CHOOSE i \in K : Cardinality({j \in K : j <= i}) = n]]

\* what is printed for the first n rows of a sequence of rows
LinesOf(rows, n) == [i \in 1..n |-> PrintedLine(rows[i])]

\* C1: with limit >= 1 the query prints exactly the first min(limit, N) rows
\* of the de-duplicated sequence (first occurrence of each row kept, order
\* kept), and total is N, the length of that sequence before truncation.
C1_DedupedThenTruncated ==
    Queried /\ run.limit >= 1 =>
        LET d == Distinct(run.out)
            N == Cardinality(ToSet(run.out))
        IN  /\ Len(d) = N
            /\ run.total = N
            /\ Len(run.printed) = Min(run.limit, N)
            /\ run.printed = LinesOf(d, Min(run.limit, N))

\* C1 witness: a query with limit >= 1 whose emitted rows repeat and whose
\* distinct rows are more than the limit
C1_Witness ==
    /\ Queried
    /\ run.limit >= 1
    /\ Len(run.out) > run.total
    /\ run.total > run.limit
    /\ Len(run.printed) = run.limit

\* C2: with limit <= 0 the query prints no row, and total is still the
\* length of the de-duplicated sequence
C2_NonPositiveLimitPrintsNothing ==
    Queried /\ run.limit <= 0 =>
        /\ run.printed = <<>>
        /\ run.total = Cardinality(ToSet(run.out))

\* two characters that are equal up to the case of a letter
SameFolded(c, d) ==
    \/ c = d
    \/ Ord[c] >= 65 /\ Ord[c] <= 90 /\ Ord[d] = Ord[c] + 32
    \/ Ord[d] >= 65 /\ Ord[d] <= 90 /\ Ord[c] = Ord[d] + 32

\* needle occurs in s, case ignored
Occurs(needle, s) ==
    \E off \in 0..(Len(s) - Len(needle)) :
        \A k \in 1..Len(needle) : SameFolded(needle[k], s[off + k])

\* the entries whose file name or title the needle occurs in
MatchingEntries(entries, needle) ==
    {i \in 1..Len(entries) :
        Occurs(needle, entries[i].file) \/ Occurs(needle, entries[i].title)}

\* the stored anchors the needle occurs in: <<entry, group, position>>
MatchingAnchors(entries, needle) ==
    UNION {UNION {{<<i, g, k>> :
                      k \in {n \in 1..Len(entries[i].anchors[g].val) :
                                Occurs(needle, entries[i].anchors[g].val[n])}} :
                     g \in 1..Len(entries[i].anchors)} :
              i \in 1..Len(entries)}

\* C3: matching is case-insensitive substring matching: a document-level
\* row is emitted for exactly the entries whose file name or title the
\* needle occurs in, an anchor-level row for exactly the stored anchors the
\* needle occurs in, and no other row; needle 'FILL' matches the anchor
\* 'bpy.ops.mesh.fill'.
C3_CaseInsensitiveSubstring ==
    Queried =>
        LET es == manifestFile[1].entries
            me == MatchingEntries(es, run.arg)
            ma == MatchingAnchors(es, run.arg)
        IN  /\ ToSet(run.out) =
                   {Row(es[i].file, es[i].title, <<>>) : i \in me}
                   \cup {Row(es[t[1]].file, es[t[1]].title,
                             <<es[t[1]].anchors[t[2]].val[t[3]]>>) : t \in ma}
            /\ Len(run.out) = Cardinality(me) + Cardinality(ma)
            /\ run.arg = Q_FILL =>
                   \A i \in 1..Len(es) :
                       \A g \in 1..Len(es[i].anchors) :
                           A_ops_mesh_fill \in ToSet(es[i].anchors[g].val) =>
                               Row(es[i].file, es[i].title, <<A_ops_mesh_fill>>)
                                   \in ToSet(run.out)

\* C3 witness: the query 'FILL' on a manifest that lists 'bpy.ops.mesh.fill'
\* and 'bpy.types.Mesh' emits a row for the first and none for the second
C3_Witness ==
    /\ Queried
    /\ run.arg = Q_FILL
    /\ \E i \in 1..Len(manifestFile[1].entries) :
          \E g \in 1..Len(manifestFile[1].entries[i].anchors) :
              A_types_Mesh \in ToSet(manifestFile[1].entries[i].anchors[g].val)
    /\ \E i \in 1..Len(run.out) : run.out[i].anchor = <<A_ops_mesh_fill>>
    /\ \A i \in 1..Len(run.out) : run.out[i].anchor = <<A_ops_mesh_fill>>

=============================================================================
